---------------------------- MODULE Spec2Model ----------------------------
(***************************************************************************)
(* State-machine model of fastapi_jupyter_server.py: the session registry  *)
(* (`sessions`), the per-session JupyterController with its kernel process *)
(* and iopub channel, the three request handlers (/run, /reset,            *)
(* /end_session), the background cleanup threads and the inactivity sweep. *)
(*                                                                         *)
(* Scheduling.  The handlers are coroutines on one asyncio event loop.     *)
(* A handler gives up the loop only at asyncio.sleep (readiness wait) and  *)
(* at asyncio.to_thread (pip install); get_iopub_msg is the blocking       *)
(* client call and keeps the loop.  `running` is the request that holds    *)
(* the loop (0: the loop is free).  The kernel process and the cleanup     *)
(* threads run beside the loop and interleave with a blocked handler.      *)
(*                                                                         *)
(* Kernel `status: busy` and `execute_input` messages are left out: every  *)
(* receive loop of the program skips them without any effect.              *)
(*                                                                         *)
(* Specifications.  Spec: one conversation, overlapping requests, faults   *)
(* of the environment.  SpecKeys: two conversations, no faults.  SpecGC:   *)
(* two conversations, the clock and the inactivity sweep.  SpecSeq: one    *)
(* conversation, one request at a time, every code and dependency list.    *)
(* SpecLive: one request at a time, code that never reports idle among the *)
(* codes, handlers and kernels scheduled fairly.  SpecKeysFaults: two      *)
(* conversations, one request at a time, faults.  SpecDied: one            *)
(* conversation whose kernel has died, overlapping requests.               *)
(* SpecInstall: one conversation, slow pip installs and the sweep.         *)
(* SpecTeardown: cleanup() call by call.                                   *)
(***************************************************************************)
EXTENDS Integers, Sequences, FiniteSets, TLC

\* ------------------------------------------------------------------ bounds
MaxReqs == 3          \* requests received in one behaviour
MaxInFlight == 2      \* requests in flight at the same time
MaxTicks == 2         \* clock advances in one behaviour
MaxFaults == 1        \* environment faults in one behaviour
MaxQueue == 2         \* iopub messages a kernel has sent and nobody has read,
                      \* for a kernel that sends without end

Reqs == 1..MaxReqs
\* A controller is created by at most one request: it is named after it.
Ctls == Reqs
Keys == {"c1", "c2"}

\* ------------------------------------------------- program constants
InactivityThreshold == 3600
TickSteps == {1, InactivityThreshold}
PipTimeout == 300      \* seconds subprocess.run gives one pip install

\* ------------------------------------------------------------------ text
\* Text is a sequence of characters; "\n" and " " are the whitespace.
Whitespace == {" ", "\n"}

RECURSIVE LStrip(_)
LStrip(s) == IF s # <<>> /\ Head(s) \in Whitespace THEN LStrip(Tail(s)) ELSE s

RECURSIVE RStrip(_)
RStrip(s) ==
    IF s # <<>> /\ s[Len(s)] \in Whitespace
    THEN RStrip(SubSeq(s, 1, Len(s) - 1)) ELSE s

Strip(s) == RStrip(LStrip(s))

RECURSIVE Join(_)
Join(texts) ==
    IF texts = <<>> THEN <<>>
    ELSE IF Len(texts) = 1 THEN texts[1]
    ELSE texts[1] \o <<"\n">> \o Join(Tail(texts))

\* ------------------------------------------------------------ kernel code
SetupCode == "setup"          \* the bootstrap snippet
ProbeCode == "1+1"            \* the readiness probe
AssignCode == "x=1"
ReadCode == "print(x)"
UserCodes == {AssignCode, ReadCode}
ShowCode == "print(x); x"     \* two output messages: a stream and a result
LoopCode == "while True: display(jpeg)"
AllCodes == UserCodes \cup {ShowCode}

\* package_name.split('[')[0] ... .replace('-', '_') on the names used here.
ImportName(pkg) == IF pkg = "scikit-learn" THEN "scikit_learn" ELSE pkg
ImportCode(pkg) == "import " \o ImportName(pkg)
InstallStep(pkg) == "pip install " \o pkg
DepLists == {<<>>, <<"pkg">>}
\* "pkg" installs as the module pkg; "scikit-learn" installs the module
\* sklearn, so that `import scikit_learn` fails.
AllDepLists ==
    DepLists \cup {<<"scikit-learn", "pkg">>, <<"pkg", "scikit-learn">>, <<"", "pkg">>}

NoTok == <<0, 0>>

Msg(type, parent, text, ename) ==
    [msg_type |-> type, parent |-> parent, text |-> text, ename |-> ename]

IdleMsg(tok) == Msg("status", tok, <<>>, "")

\* What the interpreter answers to one execute request, in emission order.
\* The idle status comes last; the reply of code that does not terminate has
\* none, and the kernel sends its messages again and again.
KernelReply(code, tok, ns) ==
    CASE code = ProbeCode -> << Msg("execute_result", tok, <<"2">>, ""), IdleMsg(tok) >>
      [] code = SetupCode -> << Msg("stream", tok, <<"o", "k", "\n">>, ""), IdleMsg(tok) >>
      [] code = AssignCode -> << IdleMsg(tok) >>
      [] code = ReadCode ->
            IF "x" \in ns
            THEN << Msg("stream", tok, <<"1", "\n">>, ""), IdleMsg(tok) >>
            ELSE << Msg("error", tok, <<>>, "NameError"), IdleMsg(tok) >>
      [] code = ShowCode ->
            IF "x" \in ns
            THEN << Msg("stream", tok, <<"1", "\n">>, ""),
                    Msg("execute_result", tok, <<"1">>, ""), IdleMsg(tok) >>
            ELSE << Msg("error", tok, <<>>, "NameError"), IdleMsg(tok) >>
      [] code = LoopCode -> << Msg("display_data", tok, <<>>, "") >>
      [] code = ImportCode("scikit-learn") ->
            << Msg("error", tok, <<>>, "ModuleNotFoundError"), IdleMsg(tok) >>
      [] OTHER -> << IdleMsg(tok) >>

Endless(reply) == reply # <<>> /\ reply[Len(reply)].msg_type # "status"

KernelNamespace(code, ns) == IF code = AssignCode THEN ns \cup {"x"} ELSE ns

\* ------------------------------------------------------------ exceptions
Exc(cls, status, detail, ename, structured, from) ==
    [cls |-> cls, status |-> status, detail |-> detail, ename |-> ename,
     structured |-> structured, from |-> from]

NoExc == Exc("none", 0, "", "", FALSE, NoTok)
TimeoutError == Exc("TimeoutError", 0, "Kernel failed to start within timeout period", "", FALSE, NoTok)
RuntimeErr(detail) == Exc("RuntimeError", 0, detail, "", FALSE, NoTok)
KeyErr == Exc("KeyError", 0, "KeyError", "", FALSE, NoTok)
HTTPException(status, detail) == Exc("HTTPException", status, detail, "", FALSE, NoTok)

ChannelError == Exc("ZMQError", 0, "channel stopped", "", FALSE, NoTok)

\* error_detail of the HTTPException raised for an `error` message.
ExecutionError(m) ==
    Exc("HTTPException", 400, "Execution error", m.ename, TRUE, m.parent)

\* `except Exception as e` around the receive loop: whatever was raised in
\* the try body leaves execute_code as a 500 whose detail is a string built
\* from str(e).
InternalError(e) ==
    Exc("HTTPException", 500, "Internal error processing kernel output",
        e.ename, FALSE, e.from)

\* ------------------------------------------------------------- responses
Res(status, kind, output, ename, structured, srcs) ==
    [status |-> status, kind |-> kind, output |-> output, ename |-> ename,
     structured |-> structured, srcs |-> srcs]

\* The requests other than r whose executions produced a message of the result.
Foreign(res, r) == {t[1] : t \in res.srcs} \ {r}

NoRes == Res(0, "", <<>>, "", FALSE, {})

Srcs(e) == IF e.from = NoTok THEN {} ELSE {e.from}

\* The handlers' `except HTTPException: raise` / `except Exception: 500`.
Respond(e) ==
    IF e.cls = "HTTPException"
    THEN Res(e.status, e.detail, <<>>, e.ename, e.structured, Srcs(e))
    ELSE Res(500, "An unexpected internal server error occurred", <<>>, e.ename, FALSE, Srcs(e))

\* The same in reset_session, whose 500 has its own detail.
RespondReset(e) ==
    IF e.cls = "HTTPException"
    THEN Respond(e)
    ELSE Res(500, "Failed to reset session", <<>>, e.ename, FALSE, Srcs(e))

\* An unknown id answered as a server error (what C9 rules out).
NotFound_500 == HTTPException(500, "Session not found")

NotFound == HTTPException(404, "Session not found")

\* ------------------------------------------------------------------ state
VARIABLES
    sessions,     \* sessions: conversation id -> SessionInfo (0: no entry)
    ctl,          \* the JupyterController / SessionInfo objects and their kernels
    req,          \* the request handlers: position and locals
    running,      \* the request holding the event loop, 0 when it is free
    cleaning,     \* controllers whose cleanup() is scheduled on a thread
    now,          \* time.time()
    everReg,      \* history: keys that have had a registry entry
    ended,        \* history: keys whose end_session succeeded
    assigned,     \* history: keys with a completed, undisturbed "x=1" run
    wiped,        \* history: keys reset successfully after an "x=1" run, with
                  \* no "x=1" since
    faults,       \* environment faults so far: kernel deaths, failed starts,
                  \* failed probes, kernels too slow for the 20 s receive
    last          \* history: the request the last step answered, with its
                  \* response, or the keys the last step swept

vars == <<sessions, ctl, req, running, cleaning, now, everReg, ended, assigned, wiped, faults, last>>

NoCtl ==
    [key |-> "", proc |-> "none", chan |-> FALSE, file |-> FALSE,
     ready |-> FALSE, ns |-> {},
     shell |-> <<>>, emit |-> <<>>, iopub |-> <<>>,
     created_at |-> 0, last_activity |-> 0,
     popped |-> 0]    \* history: the times the session was popped from the
                      \* registry with its cleanup() put on a thread

NoReq ==
    [pc |-> "idle", stk |-> <<>>, kind |-> "", key |-> "", code |-> "",
     deps |-> <<>>, di |-> 0, sess |-> 0, xcode |-> "", mid |-> NoTok,
     outs |-> <<>>, ret |-> <<>>, slept |-> FALSE, exc |-> NoExc, res |-> NoRes,
     hist |-> <<>>, seen |-> {},
     undist |-> FALSE, sawAssigned |-> FALSE, afterWipe |-> FALSE,
     afterEnd |-> FALSE, unknown |-> FALSE]

\* What is kept of a request once it is answered.
Answered(q, r, res) ==
    [r |-> r, kind |-> q.kind, key |-> q.key, code |-> q.code, deps |-> q.deps,
     di |-> q.di, sess |-> q.sess, res |-> res, hist |-> q.hist, peers |-> q.seen,
     sawAssigned |-> q.sawAssigned, afterWipe |-> q.afterWipe,
     afterEnd |-> q.afterEnd, unknown |-> q.unknown, removed |-> {}]

NoLast == Answered(NoReq, 0, NoRes)

Gone == [NoReq EXCEPT !.pc = "done"]

Start(f) ==
    /\ sessions = [k \in Keys |-> 0]
    /\ ctl = [c \in Ctls |-> NoCtl]
    /\ req = [r \in Reqs |-> NoReq]
    /\ running = 0
    /\ cleaning = {}
    /\ now = 0
    /\ everReg = {}
    /\ ended = {}
    /\ assigned = {}
    /\ wiped = {}
    /\ faults = f
    /\ last = NoLast

Init == Start(0)

\* The service in an environment without faults.
InitQuiet == Start(MaxFaults)

\* ------------------------------------------------- control-flow helpers
InFlight == {r \in Reqs : req[r].pc \notin {"idle", "done"}}

Call(q, target, retLabel) == [q EXCEPT !.pc = target, !.stk = <<retLabel>> \o @, !.exc = NoExc]
Return(q) == [q EXCEPT !.pc = Head(q.stk), !.stk = Tail(q.stk), !.exc = NoExc]
Raise(q, e) == [q EXCEPT !.pc = Head(q.stk), !.stk = Tail(q.stk), !.exc = e]

Turn(r, label) == req[r].pc = label /\ running \in {0, r}

\* An event on key k that replaces or removes its engine: in-flight requests
\* on k other than r are no longer looking at the engine they arrived to.
\* A /reset remembers through its own restart that x was assigned.
Disturb(rq, k, r) ==
    [q \in Reqs |->
        IF rq[q].key # k THEN rq[q]
        ELSE [rq[q] EXCEPT !.sawAssigned = IF q = r /\ @ /\ rq[q].kind = "reset" THEN @ ELSE FALSE,
                           !.undist = IF q = r THEN @ ELSE FALSE]]

\* "x=1" was handed to an engine of key k.
Unwipe(rq, k) ==
    [q \in Reqs |-> IF rq[q].key = k THEN [rq[q] EXCEPT !.afterWipe = FALSE] ELSE rq[q]]

IsAlive(c) == ctl[c].proc = "alive"

\* A controller no registry entry, cleanup thread or handler refers to is
\* garbage: only its kernel process, if it still runs, is left of it.
Referenced(c, ss, cl, rq) ==
    \/ \E k \in Keys : ss[k] = c
    \/ c \in cl
    \/ \E q \in Reqs : rq[q].sess = c

Collect(ct, ss, cl, rq) ==
    [c \in Ctls |->
        IF Referenced(c, ss, cl, rq) \/ ct[c].proc = "none" THEN ct[c]
        ELSE [NoCtl EXCEPT !.key = ct[c].key, !.proc = ct[c].proc,
                           !.popped = ct[c].popped]]

\* ---------------------------------------------------- JupyterController
\* The three calls of cleanup(), each when it does not raise.
\* kernel_client.stop_channels()
StopChannels(cr) == [cr EXCEPT !.chan = FALSE, !.iopub = <<>>]

\* kernel_manager.shutdown_kernel(now=True), called for a kernel that is alive
ShutdownKernel(cr) ==
    [cr EXCEPT !.proc = IF @ = "alive" THEN "dead" ELSE @,
               !.ns = {}, !.shell = <<>>, !.emit = <<>>]

\* os.remove(self.notebook_path)
RemoveNotebook(cr) == [cr EXCEPT !.file = FALSE]

\* cleanup() when none of its calls raises: stop the channels, shut the
\* kernel down if it is alive, remove the notebook file.
Cleanup(cr) == RemoveNotebook(ShutdownKernel(StopChannels(cr)))

\* A restart that kept the interpreter's namespace (what C1 rules out).
RestartKernel_KeepsNs(cr) == [cr EXCEPT !.proc = "alive", !.shell = <<>>, !.emit = <<>>]

\* KernelManager.restart_kernel(): a new process behind the same channels.
RestartKernel(cr) == [cr EXCEPT !.proc = "alive", !.ns = {}, !.shell = <<>>, !.emit = <<>>]

\* create_notebook up to start_channels(): a fresh controller and kernel.
NewController(k) ==
    [NoCtl EXCEPT !.key = k, !.proc = "alive", !.chan = TRUE, !.file = TRUE]

\* A creation that never registered its session (what C10 rules out).
Register_Nothing(ss, k, c) == ss

\* sessions[conversation_id] = session_info
Register(ss, k, c) == [ss EXCEPT ![k] = c]

\* The token kernel_client.execute returns for request r's next submission.
NextTok(r) == <<r, Len(req[r].hist) + 1>>

Submit(cr, tok, code) == [cr EXCEPT !.shell = Append(@, [tok |-> tok, code |-> code])]

\* The readiness loop's inner receive loop: messages are taken up to and
\* including the first idle status, whatever execution it belongs to.
RECURSIVE AfterFirstIdle(_)
AfterFirstIdle(q) ==
    IF q = <<>> THEN <<>>
    ELSE IF Head(q).msg_type = "status" THEN Tail(q)
    ELSE AfterFirstIdle(Tail(q))

\* A receive loop that ends at the idle status of any execution (what C16
\* rules out).
RECURSIVE Receive_AnyIdle(_, _, _)
Receive_AnyIdle(q, mid, outs) ==
    IF q = <<>> THEN [outs |-> outs, rest |-> <<>>, end |-> "more", err |-> IdleMsg(NoTok)]
    ELSE LET m == Head(q) IN
         CASE m.msg_type \in {"stream", "execute_result"} ->
                Receive_AnyIdle(Tail(q), mid, Append(outs, m))
           [] m.msg_type = "error" ->
                [outs |-> outs, rest |-> Tail(q), end |-> "error", err |-> m]
           [] m.msg_type = "status" ->
                [outs |-> outs, rest |-> Tail(q), end |-> "idle", err |-> m]
           [] OTHER -> Receive_AnyIdle(Tail(q), mid, outs)

\* The receive loop of execute_code on the queued messages q: the outputs
\* collected, the messages left, and how the loop ended.
RECURSIVE Receive(_, _, _)
Receive(q, mid, outs) ==
    IF q = <<>> THEN [outs |-> outs, rest |-> <<>>, end |-> "more", err |-> IdleMsg(NoTok)]
    ELSE LET m == Head(q) IN
         CASE m.msg_type \in {"stream", "execute_result"} ->
                Receive(Tail(q), mid, Append(outs, m))
           [] m.msg_type = "display_data" ->
                Receive(Tail(q), mid, IF m.text # <<>> THEN Append(outs, m) ELSE outs)
           [] m.msg_type = "error" ->
                [outs |-> outs, rest |-> Tail(q), end |-> "error", err |-> m]
           [] m.msg_type = "status" /\ m.parent = mid ->
                [outs |-> outs, rest |-> Tail(q), end |-> "idle", err |-> m]
           [] OTHER -> Receive(Tail(q), mid, outs)

Texts(outs) == [i \in 1..Len(outs) |-> outs[i].text]

\* '\n'.join(outputs).strip() if outputs else ""
Output(outs) == IF outs = <<>> THEN <<>> ELSE Strip(Join(Texts(outs)))

Parents(outs) == {outs[i].parent : i \in 1..Len(outs)}

\* ------------------------------------------------------------ environment
\* The kernel process of controller c takes its next step: it starts on the
\* next queued request or emits the next message of the one it is running.
KernelStep(c) ==
    /\ IsAlive(c)
    /\ \/ /\ ctl[c].emit # <<>>
          /\ Endless(ctl[c].emit) => Len(ctl[c].iopub) < MaxQueue
          /\ ctl' = [ctl EXCEPT ![c].iopub = Append(@, Head(ctl[c].emit)),
                                ![c].emit = IF Endless(@) THEN Tail(@) \o <<Head(@)>>
                                            ELSE Tail(@)]
       \/ /\ ctl[c].emit = <<>>
          /\ ctl[c].shell # <<>>
          /\ LET x == Head(ctl[c].shell)
                 out == KernelReply(x.code, x.tok, ctl[c].ns)
             IN ctl' = [ctl EXCEPT ![c].shell = Tail(@),
                                   ![c].ns = KernelNamespace(x.code, @),
                                   ![c].iopub = Append(@, Head(out)),
                                   ![c].emit = IF Endless(out) THEN Tail(out) \o <<Head(out)>>
                                               ELSE Tail(out)]
    /\ UNCHANGED <<sessions, req, running, cleaning, now, everReg, ended, assigned, wiped, faults>>
    /\ last' = NoLast

\* The kernel process dies.
KernelDie(c) ==
    /\ IsAlive(c)
    /\ faults < MaxFaults
    /\ faults' = faults + 1
    /\ ctl' = [ctl EXCEPT ![c].proc = "dead", ![c].ns = {}, ![c].shell = <<>>, ![c].emit = <<>>]
    /\ UNCHANGED <<sessions, req, running, cleaning, now, everReg, ended, assigned, wiped>>
    /\ last' = NoLast

\* asyncio.to_thread(session_info.controller.cleanup) runs.
CleanupThread(c) ==
    /\ c \in cleaning
    /\ cleaning' = cleaning \ {c}
    /\ ctl' = Collect([ctl EXCEPT ![c] = Cleanup(@)], sessions, cleaning', req)
    /\ UNCHANGED <<sessions, req, running, now, everReg, ended, assigned, wiped, faults>>
    /\ last' = NoLast

Ticks == (now \div InactivityThreshold) + (now % InactivityThreshold)

Tick(d) ==
    /\ running = 0
    /\ Ticks < MaxTicks
    /\ d = 1 <=> now \div InactivityThreshold > now % InactivityThreshold
    /\ now' = now + d
    /\ UNCHANGED <<sessions, ctl, req, running, cleaning, everReg, ended, assigned, wiped, faults>>
    /\ last' = NoLast

\* ------------------------------------------------------ inactivity sweep
\* A sweep that measured from the creation time (what C8 rules out).
IsInactive_Created(c, t) == t - ctl[c].created_at > InactivityThreshold

\* current_time - session_info.last_activity > 3600
IsInactive(c, t) == t - ctl[c].last_activity > InactivityThreshold

ToRemove == {k \in Keys : sessions[k] # 0 /\ IsInactive(sessions[k], now)}

\* One pass of cleanup_inactive_sessions after its sleep: no await between
\* the snapshot of the keys and the last pop.
GcSweep ==
    /\ running = 0
    /\ sessions' = [k \in Keys |-> IF k \in ToRemove THEN 0 ELSE sessions[k]]
    /\ cleaning' = cleaning \cup {sessions[k] : k \in ToRemove}
    /\ ctl' = [c \in Ctls |->
                 IF \E k \in ToRemove : sessions[k] = c
                 THEN [ctl[c] EXCEPT !.popped = @ + 1] ELSE ctl[c]]
    /\ req' = [q \in Reqs |->
                 IF req[q].key \in ToRemove
                 THEN [req[q] EXCEPT !.undist = FALSE, !.sawAssigned = FALSE]
                 ELSE req[q]]
    /\ assigned' = assigned \ ToRemove
    /\ UNCHANGED <<running, now, everReg, ended, wiped, faults>>
    /\ last' = [NoLast EXCEPT !.kind = "sweep", !.removed = ToRemove]

\* ------------------------------------------------------------- requests
\* A request is received; its handler runs once the event loop is free.
\* The body of a /run request (code, dependencies) is drawn where the handler
\* first reads it.
Arrive(r, kind, k) ==
    /\ req[r].pc = "idle"
    /\ running = 0
    /\ \A q \in Reqs : q < r => req[q].pc # "idle"
    /\ r = 1 => k = "c1"
    /\ Cardinality(InFlight) < MaxInFlight
    /\ req' = [q \in Reqs |->
                 IF q = r
                 THEN [NoReq EXCEPT !.pc = "start", !.kind = kind, !.key = k,
                                    !.seen = InFlight,
                                    !.undist = TRUE,
                                    !.sawAssigned = k \in assigned,
                                    !.afterWipe = k \in wiped,
                                    !.afterEnd = k \in ended]
                 ELSE IF q \in InFlight THEN [req[q] EXCEPT !.seen = @ \cup {r}]
                 ELSE req[q]]
    /\ UNCHANGED <<sessions, ctl, running, cleaning, now, everReg, ended, assigned, wiped, faults>>
    /\ last' = NoLast

\* /run: `if conversation_id in sessions` chooses get_session or _create_session.
RunLookup(k) == sessions[k] # 0

RunStart(r) ==
    /\ Turn(r, "start")
    /\ req[r].kind = "run"
    /\ req' = [req EXCEPT ![r] = IF RunLookup(req[r].key)
                                 THEN Call(@, "get_session", "run_have")
                                 ELSE Call(@, "create_session", "run_have")]
    /\ running' = r
    /\ UNCHANGED <<sessions, ctl, cleaning, now, everReg, ended, assigned, wiped, faults>>
    /\ last' = NoLast

\* A get_session that leaves last_activity as it is (what C25 rules out).
GetSession_NoTouch(r) ==
    /\ Turn(r, "get_session")
    /\ running' = r
    /\ LET c == sessions[req[r].key]
       IN IF c = 0
          THEN /\ req' = [req EXCEPT ![r] = Raise(@, NotFound)]
               /\ UNCHANGED ctl
          ELSE IF ~IsAlive(c)
          THEN /\ ctl' = [ctl EXCEPT ![c].ready = FALSE]
               /\ req' = [req EXCEPT ![r] = Call([@ EXCEPT !.sess = c], "reset_kernel", "gs_reset")]
          ELSE IF ~ctl[c].ready
          THEN /\ UNCHANGED ctl
               /\ req' = [req EXCEPT ![r] = Call([@ EXCEPT !.sess = c, !.slept = FALSE],
                                                 "wait_ready", "gs_waited")]
          ELSE /\ UNCHANGED ctl
               /\ req' = [req EXCEPT ![r] = Return([@ EXCEPT !.sess = c])]
    /\ UNCHANGED <<sessions, cleaning, now, everReg, ended, assigned, wiped, faults>>
    /\ last' = NoLast

\* get_session up to its first await.
GetSession(r) ==
    /\ Turn(r, "get_session")
    /\ running' = r
    /\ LET k == req[r].key
           c == sessions[k]
       IN IF c = 0
          THEN /\ req' = [req EXCEPT ![r] = Raise(@, NotFound)]
               /\ UNCHANGED ctl
          ELSE IF ~IsAlive(c)
          THEN /\ ctl' = [ctl EXCEPT ![c].last_activity = now, ![c].ready = FALSE]
               /\ req' = [req EXCEPT ![r] = Call([@ EXCEPT !.sess = c], "reset_kernel", "gs_reset")]
          ELSE IF ~ctl[c].ready
          THEN /\ ctl' = [ctl EXCEPT ![c].last_activity = now]
               /\ req' = [req EXCEPT ![r] = Call([@ EXCEPT !.sess = c, !.slept = FALSE],
                                                 "wait_ready", "gs_waited")]
          ELSE /\ ctl' = [ctl EXCEPT ![c].last_activity = now]
               /\ req' = [req EXCEPT ![r] = Return([@ EXCEPT !.sess = c])]
    /\ UNCHANGED <<sessions, cleaning, now, everReg, ended, assigned, wiped, faults>>
    /\ last' = NoLast

\* A failed recovery that left the entry in the registry (what C12 rules out).
GsFail_KeepsEntry(r) ==
    /\ ctl' = [ctl EXCEPT ![req[r].sess] = Cleanup(@)]
    /\ req' = [req EXCEPT ![r] = Raise(@, HTTPException(500, "Kernel died and could not be reset"))]
    /\ UNCHANGED <<sessions, assigned>>

\* The `except Exception as reset_error` arms of get_session: cleanup, delete
\* the entry under the key (a KeyError when there is none), answer 500.
GsFail(r) ==
    LET k == req[r].key
        c == req[r].sess
    IN /\ ctl' = [ctl EXCEPT ![c] = Cleanup(@)]
       /\ sessions' = [sessions EXCEPT ![k] = 0]
       /\ req' = [Disturb(req, k, r) EXCEPT ![r] =
                    Raise(@, IF sessions[k] = 0 THEN KeyErr
                                  ELSE HTTPException(500, "Kernel died and could not be reset"))]
       /\ assigned' = assigned \ {k}

\* get_session after reset_kernel: re-run the setup code.
GsReset(r) ==
    /\ Turn(r, "gs_reset")
    /\ running' = r
    /\ IF req[r].exc = NoExc
       THEN /\ req' = [req EXCEPT ![r] = Call([@ EXCEPT !.xcode = SetupCode], "execute_code", "gs_setup")]
            /\ UNCHANGED <<sessions, ctl, assigned>>
       ELSE GsFail(r)
    /\ UNCHANGED <<cleaning, now, everReg, ended, wiped, faults>>
    /\ last' = NoLast

\* get_session after the setup code.
GsSetup(r) ==
    /\ Turn(r, "gs_setup")
    /\ running' = r
    /\ IF req[r].exc = NoExc
       THEN /\ req' = [req EXCEPT ![r] = Return(@)]
            /\ UNCHANGED <<sessions, ctl, assigned>>
       ELSE GsFail(r)
    /\ UNCHANGED <<cleaning, now, everReg, ended, wiped, faults>>
    /\ last' = NoLast

\* get_session after _wait_for_kernel_ready(timeout=15).
GsWaited(r) ==
    /\ Turn(r, "gs_waited")
    /\ running' = r
    /\ req' = [req EXCEPT ![r] = IF req[r].exc = NoExc THEN Return(@)
                                 ELSE Call(@, "reset_kernel", "gs_reset")]
    /\ UNCHANGED <<sessions, ctl, cleaning, now, everReg, ended, assigned, wiped, faults>>
    /\ last' = NoLast

\* A reset_kernel that restarts without clearing the readiness flag (what
\* C24 rules out).
ResetKernel_KeepsReady(r, ok) ==
    /\ Turn(r, "reset_kernel")
    /\ running' = r
    /\ ok
    /\ ctl' = [ctl EXCEPT ![req[r].sess] = RestartKernel(@)]
    /\ req' = [Disturb(req, ctl[req[r].sess].key, r) EXCEPT ![r] =
                 Call([@ EXCEPT !.slept = FALSE, !.hist = Append(@, "restart")],
                      "wait_ready", "rk_waited")]
    /\ assigned' = assigned \ {ctl[req[r].sess].key}
    /\ UNCHANGED <<sessions, cleaning, now, everReg, ended, wiped, faults>>
    /\ last' = NoLast

\* reset_kernel up to the readiness wait; restart_kernel() may raise.
ResetKernel(r, ok) ==
    /\ Turn(r, "reset_kernel")
    /\ running' = r
    /\ ok \/ faults < MaxFaults
    /\ faults' = IF ok THEN faults ELSE faults + 1
    /\ LET c == req[r].sess
           k == ctl[c].key
       IN /\ IF ok
             THEN /\ ctl' = [ctl EXCEPT ![c] = RestartKernel([@ EXCEPT !.ready = FALSE])]
                  /\ req' = [Disturb(req, k, r) EXCEPT ![r] =
                               Call([@ EXCEPT !.slept = FALSE, !.hist = Append(@, "restart")],
                                    "wait_ready", "rk_waited")]
             ELSE /\ ctl' = [ctl EXCEPT ![c] = Cleanup([@ EXCEPT !.ready = FALSE])]
                  /\ req' = [Disturb(req, k, r) EXCEPT ![r] =
                               Raise(@, RuntimeErr("Failed to reset kernel"))]
          /\ assigned' = assigned \ {k}
    /\ UNCHANGED <<sessions, cleaning, now, everReg, ended, wiped>>
    /\ last' = NoLast

\* reset_kernel after the readiness wait: drain the queue, or clean up.
RkWaited(r) ==
    /\ Turn(r, "rk_waited")
    /\ running' = r
    /\ LET c == req[r].sess
       IN IF req[r].exc = NoExc /\ ctl[c].chan
          THEN /\ ctl' = [ctl EXCEPT ![c].iopub = <<>>]
               /\ req' = [req EXCEPT ![r] = Return(@)]
          ELSE /\ ctl' = [ctl EXCEPT ![c] = Cleanup(@)]
               /\ req' = [req EXCEPT ![r] = Raise(@, RuntimeErr("Failed to reset kernel"))]
    /\ UNCHANGED <<sessions, cleaning, now, everReg, ended, assigned, wiped, faults>>
    /\ last' = NoLast

\* One pass of the `while not self._kernel_ready` loop up to the probe or
\* the sleep.  The timeout can strike only after a sleep.  The probe is not
\* sent when the kernel is not alive; sending raises on stopped channels and
\* may raise otherwise (the loop's `except Exception`), which leads to the
\* sleep as well.
WaitReady(r, probe) ==
    /\ Turn(r, "wait_ready")
    /\ LET c == req[r].sess
           can == IsAlive(c) /\ ctl[c].chan
       IN IF ctl[c].ready
          THEN /\ req' = [req EXCEPT ![r] = Return(@)]
               /\ running' = r
               /\ UNCHANGED <<ctl, faults>>
          ELSE CASE probe = "timeout" ->
                      /\ req[r].slept
                      /\ req' = [req EXCEPT ![r] = Raise(@, TimeoutError)]
                      /\ running' = r
                      /\ UNCHANGED <<ctl, faults>>
                 [] probe = "sent" ->
                      /\ can
                      /\ ctl' = [ctl EXCEPT ![c] = Submit(@, NextTok(r), ProbeCode)]
                      /\ req' = [req EXCEPT ![r] = [@ EXCEPT !.pc = "wr_drain",
                                                             !.hist = Append(@, "probe")]]
                      /\ running' = r
                      /\ UNCHANGED faults
                 [] OTHER ->
                      /\ can => faults < MaxFaults
                      /\ faults' = IF can THEN faults + 1 ELSE faults
                      /\ req' = [req EXCEPT ![r].slept = TRUE]
                      /\ running' = 0
                      /\ UNCHANGED ctl
    /\ UNCHANGED <<sessions, cleaning, now, everReg, ended, assigned, wiped>>
    /\ last' = NoLast

\* The probe's receive loop: ends at the first idle status or at the first
\* empty read, and then the controller is ready.
WrDrain(r) ==
    /\ Turn(r, "wr_drain")
    /\ LET c == req[r].sess
       IN IF ctl[c].chan
          THEN /\ ctl' = [ctl EXCEPT ![c].iopub = AfterFirstIdle(@), ![c].ready = TRUE]
               /\ req' = [req EXCEPT ![r] = Return(@)]
               /\ running' = r
          ELSE /\ req' = [req EXCEPT ![r] = [@ EXCEPT !.pc = "wait_ready", !.slept = TRUE]]
               /\ running' = 0
               /\ UNCHANGED ctl
    /\ UNCHANGED <<sessions, cleaning, now, everReg, ended, assigned, wiped, faults>>
    /\ last' = NoLast

\* execute_code from `if not self.kernel_manager.is_alive()` to the submit.
ExSubmit(r) ==
    LET c == req[r].sess
        k == ctl[c].key
        tok == NextTok(r)
        what == IF Head(req[r].stk) = "run_exec" THEN "code"
                ELSE IF req[r].xcode = SetupCode THEN "setup" ELSE req[r].xcode
    IN IF ~IsAlive(c)
       THEN /\ ctl' = [ctl EXCEPT ![c].ready = FALSE]
            /\ req' = [req EXCEPT ![r] = Raise(@, RuntimeErr("Kernel died"))]
            /\ UNCHANGED wiped
       ELSE IF ~ctl[c].chan
       THEN /\ req' = [req EXCEPT ![r] = Raise(@, ChannelError)]
            /\ UNCHANGED <<ctl, wiped>>
       ELSE /\ ctl' = [ctl EXCEPT ![c] = Submit([@ EXCEPT !.iopub = <<>>], tok, req[r].xcode)]
            /\ req' = [(IF req[r].xcode = AssignCode THEN Unwipe(req, k) ELSE req) EXCEPT ![r] =
                         [@ EXCEPT !.pc = "ex_wait", !.mid = tok, !.outs = <<>>,
                                   !.hist = Append(@, what)]]
            /\ wiped' = IF req[r].xcode = AssignCode THEN wiped \ {k} ELSE wiped

\* execute_code: the readiness test at its head.
ExecuteCode(r) ==
    /\ Turn(r, "execute_code")
    /\ running' = r
    /\ IF ctl[req[r].sess].ready
       THEN ExSubmit(r)
       ELSE /\ req' = [req EXCEPT ![r] = Call([@ EXCEPT !.slept = FALSE], "wait_ready", "ex_waited")]
            /\ UNCHANGED <<ctl, wiped>>
    /\ UNCHANGED <<sessions, cleaning, now, everReg, ended, assigned, faults>>
    /\ last' = NoLast

\* An execute_code that submits the code whatever its readiness wait gave
\* (what C28 rules out).
ExWaited_SubmitsAnyway(r) ==
    /\ Turn(r, "ex_waited")
    /\ running' = r
    /\ ExSubmit(r)
    /\ UNCHANGED <<sessions, cleaning, now, everReg, ended, assigned, faults>>
    /\ last' = NoLast

\* execute_code after _wait_for_kernel_ready(timeout=5).
ExWaited(r) ==
    /\ Turn(r, "ex_waited")
    /\ running' = r
    /\ IF req[r].exc # NoExc
       THEN /\ req' = [req EXCEPT ![r] = Raise(@, RuntimeErr("Kernel not ready"))]
            /\ UNCHANGED <<ctl, wiped>>
       ELSE IF ~ctl[req[r].sess].ready
       THEN /\ req' = [req EXCEPT ![r] = Raise(@, RuntimeErr("Kernel not ready after waiting"))]
            /\ UNCHANGED <<ctl, wiped>>
       ELSE ExSubmit(r)
    /\ UNCHANGED <<sessions, cleaning, now, everReg, ended, assigned, faults>>
    /\ last' = NoLast

\* get_iopub_msg(timeout=20) returns messages: the receive loop runs on them.
ExecRecv(r) ==
    /\ Turn(r, "ex_wait")
    /\ running' = r
    /\ LET c == req[r].sess
           got == Receive(ctl[c].iopub, req[r].mid, req[r].outs)
       IN /\ ctl[c].chan
          /\ ctl[c].iopub # <<>>
          /\ ctl' = [ctl EXCEPT ![c].iopub = got.rest]
          /\ req' = [req EXCEPT ![r] =
                CASE got.end = "idle" -> Return([@ EXCEPT !.outs = got.outs, !.ret = Output(got.outs)])
                  [] got.end = "error" -> Raise([@ EXCEPT !.outs = got.outs],
                                                InternalError(ExecutionError(got.err)))
                  [] OTHER -> [@ EXCEPT !.outs = got.outs]]
    /\ UNCHANGED <<sessions, cleaning, now, everReg, ended, assigned, wiped, faults>>
    /\ last' = NoLast

\* A receive that timed out on a dead kernel and left the readiness flag set
\* (what C18 rules out).
ExecEmpty_KeepsReady(r) ==
    /\ Turn(r, "ex_wait")
    /\ running' = r
    /\ ctl[req[r].sess].chan
    /\ ctl[req[r].sess].iopub = <<>>
    /\ ~IsAlive(req[r].sess)
    /\ req' = [req EXCEPT ![r] = Raise(@, RuntimeErr("Kernel died during execution"))]
    /\ UNCHANGED <<sessions, ctl, cleaning, now, everReg, ended, assigned, wiped, faults>>
    /\ last' = NoLast

\* get_iopub_msg(timeout=20) raises queue.Empty.
ExecEmpty(r) ==
    /\ Turn(r, "ex_wait")
    /\ running' = r
    /\ LET c == req[r].sess
       IN /\ ctl[c].chan
          /\ ctl[c].iopub = <<>>
          /\ IF ~IsAlive(c)
             THEN /\ ctl' = [ctl EXCEPT ![c].ready = FALSE]
                  /\ req' = [req EXCEPT ![r] = Raise(@, RuntimeErr("Kernel died during execution"))]
                  /\ UNCHANGED faults
             ELSE /\ faults < MaxFaults
                  /\ faults' = faults + 1
                  /\ req' = [req EXCEPT ![r] = Raise(@, HTTPException(408, "Code execution timed out"))]
                  /\ UNCHANGED ctl
    /\ UNCHANGED <<sessions, cleaning, now, everReg, ended, assigned, wiped>>
    /\ last' = NoLast

\* get_iopub_msg raises on channels that cleanup() has stopped.
ExecChanStopped(r) ==
    /\ Turn(r, "ex_wait")
    /\ running' = r
    /\ ~ctl[req[r].sess].chan
    /\ req' = [req EXCEPT ![r] = Raise(@, InternalError(ChannelError))]
    /\ UNCHANGED <<sessions, ctl, cleaning, now, everReg, ended, assigned, wiped, faults>>
    /\ last' = NoLast

\* _create_session up to the readiness wait of create_notebook;
\* start_kernel() may raise.
CreateSession(r, ok) ==
    /\ Turn(r, "create_session")
    /\ running' = r
    /\ ok \/ faults < MaxFaults
    /\ faults' = IF ok THEN faults ELSE faults + 1
    /\ LET k == req[r].key
           old == sessions[k]
       IN /\ sessions' = [sessions EXCEPT ![k] = 0]
          /\ assigned' = assigned \ {k}
          /\ IF ok
             THEN /\ ctl' = [c \in Ctls |->
                               IF c = r THEN NewController(k)
                               ELSE IF c = old THEN Cleanup(ctl[c]) ELSE ctl[c]]
                  /\ req' = [Disturb(req, k, r) EXCEPT ![r] =
                               Call([@ EXCEPT !.sess = r, !.slept = FALSE,
                                              !.hist = Append(@, "start")],
                                    "wait_ready", "cs_ready")]
             ELSE /\ ctl' = [c \in Ctls |-> IF c = old THEN Cleanup(ctl[c]) ELSE ctl[c]]
                  /\ req' = [Disturb(req, k, r) EXCEPT ![r] =
                               Raise(@, HTTPException(500, "Failed to create session"))]
    /\ UNCHANGED <<cleaning, now, everReg, ended, wiped>>
    /\ last' = NoLast

\* _create_session after create_notebook's readiness wait: register the
\* session and run the setup code.
CsReady(r) ==
    /\ Turn(r, "cs_ready")
    /\ running' = r
    /\ LET c == req[r].sess
           k == req[r].key
       IN IF req[r].exc = NoExc /\ ctl[c].chan
          THEN /\ ctl' = [ctl EXCEPT ![c].iopub = <<>>, ![c].created_at = now,
                                     ![c].last_activity = now]
               /\ sessions' = Register(sessions, k, c)
               /\ everReg' = everReg \cup {k}
               /\ req' = [req EXCEPT ![r] = Call([@ EXCEPT !.xcode = SetupCode],
                                                 "execute_code", "cs_setup")]
          ELSE /\ ctl' = [ctl EXCEPT ![c] = Cleanup(@)]
               /\ req' = [req EXCEPT ![r] = Raise(@, HTTPException(500, "Failed to create session"))]
               /\ UNCHANGED <<sessions, everReg>>
    /\ UNCHANGED <<cleaning, now, ended, assigned, wiped, faults>>
    /\ last' = NoLast

\* _create_session after the setup code: on failure clean up, delete the
\* entry under the key and answer 500.
CsSetup(r) ==
    /\ Turn(r, "cs_setup")
    /\ running' = r
    /\ LET c == req[r].sess
           k == req[r].key
       IN IF req[r].exc = NoExc
          THEN /\ req' = [req EXCEPT ![r] = Return(@)]
               /\ UNCHANGED <<ctl, sessions, assigned>>
          ELSE /\ ctl' = [ctl EXCEPT ![c] = Cleanup(@)]
               /\ sessions' = [sessions EXCEPT ![k] = 0]
               /\ assigned' = assigned \ {k}
               /\ req' = [Disturb(req, k, r) EXCEPT ![r] =
                            Raise(@, HTTPException(500, "Failed to create session"))]
    /\ UNCHANGED <<cleaning, now, everReg, ended, wiped, faults>>
    /\ last' = NoLast

\* /run once it holds a session: the dependency list, then the code.
ToCode(q, code) == Call([q EXCEPT !.code = code, !.xcode = code], "execute_code", "run_exec")

\* The handler of request r returns `res`.
Answer(r, res) ==
    /\ req' = [req EXCEPT ![r] = Gone]
    /\ last' = Answered(req[r], r, res)
    /\ ctl' = Collect(ctl, sessions, cleaning, req')
    /\ running' = 0

RunHave(r, deps, code) ==
    /\ Turn(r, "run_have")
    /\ IF req[r].exc # NoExc
       THEN Answer(r, Respond(req[r].exc))
       ELSE /\ req' = [req EXCEPT ![r] = IF deps = <<>> THEN ToCode(@, code)
                                         ELSE [@ EXCEPT !.pc = "install", !.deps = deps, !.di = 1]]
            /\ running' = r
            /\ UNCHANGED ctl
            /\ last' = NoLast
    /\ UNCHANGED <<sessions, cleaning, now, everReg, ended, assigned, wiped, faults>>

\* _install_dependencies: the head of the loop over the package names; an
\* empty name is skipped; pip runs on a thread and the handler awaits it.
Install(r, code) ==
    /\ Turn(r, "install")
    /\ IF req[r].di > Len(req[r].deps)
       THEN /\ req' = [req EXCEPT ![r] = ToCode(@, code)]
            /\ running' = r
       ELSE IF req[r].deps[req[r].di] = ""
       THEN /\ req' = [req EXCEPT ![r].di = @ + 1]
            /\ running' = r
       ELSE /\ req' = [req EXCEPT ![r] =
                         [@ EXCEPT !.pc = "pip",
                                   !.hist = Append(@, InstallStep(req[r].deps[req[r].di]))]]
            /\ running' = 0
    /\ UNCHANGED <<sessions, ctl, cleaning, now, everReg, ended, assigned, wiped, faults>>
    /\ last' = NoLast

\* subprocess.run(pip install) is over: exit code 0, another exit code, or
\* subprocess.TimeoutExpired.
PipDone(r, outcome) ==
    /\ Turn(r, "pip")
    /\ CASE outcome = "ok" ->
              /\ req' = [req EXCEPT ![r] = Call([@ EXCEPT !.xcode = ImportCode(req[r].deps[req[r].di])],
                                                "execute_code", "imported")]
              /\ running' = r
              /\ UNCHANGED ctl
              /\ last' = NoLast
         [] outcome = "failed" ->
              Answer(r, Respond(HTTPException(400,
                    "Failed to install dependency '" \o req[r].deps[req[r].di] \o "'")))
         [] OTHER ->
              Answer(r, Respond(HTTPException(408,
                    "Package installation timed out for '" \o req[r].deps[req[r].di] \o "'")))
    /\ UNCHANGED <<sessions, cleaning, now, everReg, ended, assigned, wiped, faults>>

\* A dependency loop that goes on after a failed import (what C15 rules out).
Imported_GoesOn(r) ==
    /\ Turn(r, "imported")
    /\ req' = [req EXCEPT ![r] = [@ EXCEPT !.pc = "install", !.di = @ + 1, !.exc = NoExc]]
    /\ running' = r
    /\ last' = NoLast
    /\ UNCHANGED <<sessions, ctl, cleaning, now, everReg, ended, assigned, wiped, faults>>

\* _install_dependencies after the import statement ran in the kernel.
Imported(r) ==
    /\ Turn(r, "imported")
    /\ LET e == req[r].exc
       IN CASE e = NoExc ->
                /\ req' = [req EXCEPT ![r] = [@ EXCEPT !.pc = "install", !.di = @ + 1]]
                /\ running' = r
                /\ UNCHANGED ctl
                /\ last' = NoLast
            [] e.cls = "HTTPException" ->
                Answer(r, Respond(Exc("HTTPException", 400,
                      "Package '" \o req[r].deps[req[r].di] \o "' installed but failed to import in kernel",
                      e.ename, FALSE, e.from)))
            [] OTHER ->
                Answer(r, Respond(HTTPException(500,
                      "Unexpected error installing dependency '" \o req[r].deps[req[r].di] \o "'")))
    /\ UNCHANGED <<sessions, cleaning, now, everReg, ended, assigned, wiped, faults>>

\* /run after the caller's code: {"output": output}, or the error.
RunExec(r) ==
    /\ Turn(r, "run_exec")
    /\ LET k == req[r].key
           ok == req[r].exc = NoExc
       IN /\ Answer(r, IF ok THEN Res(200, "output", req[r].ret, "", FALSE, Parents(req[r].outs))
                       ELSE Respond(req[r].exc))
          /\ assigned' = IF ok /\ req[r].code = AssignCode /\ req[r].undist
                         THEN assigned \cup {k} ELSE assigned
    /\ UNCHANGED <<sessions, cleaning, now, everReg, ended, wiped, faults>>

\* /reset: get_session first.
ResetStart(r) ==
    /\ Turn(r, "start")
    /\ req[r].kind = "reset"
    /\ running' = r
    /\ req' = [req EXCEPT ![r] = Call([@ EXCEPT !.unknown = sessions[req[r].key] = 0],
                                      "get_session", "rs_got")]
    /\ UNCHANGED <<sessions, ctl, cleaning, now, everReg, ended, assigned, wiped, faults>>
    /\ last' = NoLast

RsGot(r) ==
    /\ Turn(r, "rs_got")
    /\ IF req[r].exc = NoExc
       THEN /\ req' = [req EXCEPT ![r] = Call(@, "reset_kernel", "rs_reset")]
            /\ running' = r
            /\ UNCHANGED ctl
            /\ last' = NoLast
       ELSE Answer(r, RespondReset(req[r].exc))
    /\ UNCHANGED <<sessions, cleaning, now, everReg, ended, assigned, wiped, faults>>

\* /reset after reset_kernel: re-run the setup code.
RsReset(r) ==
    /\ Turn(r, "rs_reset")
    /\ IF req[r].exc = NoExc
       THEN /\ req' = [req EXCEPT ![r] = Call([@ EXCEPT !.xcode = SetupCode], "execute_code", "rs_setup")]
            /\ running' = r
            /\ UNCHANGED ctl
            /\ last' = NoLast
       ELSE Answer(r, RespondReset(req[r].exc))
    /\ UNCHANGED <<sessions, cleaning, now, everReg, ended, assigned, wiped, faults>>

\* /reset after the setup code.
RsSetup(r) ==
    /\ Turn(r, "rs_setup")
    /\ LET k == req[r].key
           ok == req[r].exc = NoExc
       IN /\ Answer(r, IF ok THEN Res(200, "reset successful", <<>>, "", FALSE, {})
                       ELSE Respond(HTTPException(500, "Kernel reset, but failed to re-initialize environment")))
          /\ wiped' = IF ok /\ req[r].undist /\ req[r].sawAssigned
                       THEN wiped \cup {k} ELSE wiped
    /\ UNCHANGED <<sessions, cleaning, now, everReg, ended, assigned, faults>>

\* An end_session that empties the registry (what C26 rules out).
EndSession_EndsAll(r) ==
    /\ Turn(r, "start")
    /\ req[r].kind = "end"
    /\ running' = 0
    /\ sessions[req[r].key] # 0
    /\ sessions' = [k \in Keys |-> 0]
    /\ cleaning' = cleaning \cup {sessions[k] : k \in {j \in Keys : sessions[j] # 0}}
    /\ ctl' = [c \in Ctls |->
                 IF \E k \in Keys : sessions[k] = c
                 THEN [ctl[c] EXCEPT !.popped = @ + 1] ELSE ctl[c]]
    /\ ended' = ended \cup {req[r].key}
    /\ assigned' = {}
    /\ req' = [req EXCEPT ![r] = Gone]
    /\ last' = Answered(req[r], r, Res(200, "ended", <<>>, "", FALSE, {}))
    /\ UNCHANGED <<now, everReg, wiped, faults>>

\* An end_session that put cleanup() on a thread and left the entry in the
\* registry (what C22 rules out).
EndSession_KeepsEntry(r) ==
    /\ Turn(r, "start")
    /\ req[r].kind = "end"
    /\ running' = 0
    /\ sessions[req[r].key] # 0
    /\ cleaning' = cleaning \cup {sessions[req[r].key]}
    /\ ctl' = [ctl EXCEPT ![sessions[req[r].key]].popped = @ + 1]
    /\ req' = [req EXCEPT ![r] = Gone]
    /\ last' = Answered(req[r], r, Res(200, "ended", <<>>, "", FALSE, {}))
    /\ UNCHANGED <<sessions, now, everReg, ended, assigned, wiped, faults>>

\* /end_session: 404, or pop the entry and schedule cleanup() on a thread.
EndSession(r) ==
    /\ Turn(r, "start")
    /\ req[r].kind = "end"
    /\ running' = 0
    /\ LET k == req[r].key
           c == sessions[k]
       IN IF c = 0
          THEN /\ req' = [req EXCEPT ![r] = Gone]
               /\ last' = Answered([req[r] EXCEPT !.unknown = TRUE], r, Respond(NotFound))
               /\ UNCHANGED <<sessions, ctl, cleaning, ended, assigned>>
          ELSE /\ sessions' = [sessions EXCEPT ![k] = 0]
               /\ cleaning' = cleaning \cup {c}
               /\ ctl' = [ctl EXCEPT ![c].popped = @ + 1]
               /\ ended' = ended \cup {k}
               /\ assigned' = assigned \ {k}
               /\ req' = [Disturb(req, k, r) EXCEPT ![r] = Gone]
               /\ last' = Answered(req[r], r, Res(200, "ended", <<>>, "", FALSE, {}))
    /\ UNCHANGED <<now, everReg, wiped, faults>>

\* ------------------------------------------------------------ the system
\* The steps of the handlers, of the kernels and of the cleanup threads,
\* but for the one that needs a cleanup to stop the channels under a handler
\* that is waiting for a message.
StepsAlone ==
    \/ \E r \in Reqs : RunStart(r)
    \/ \E r \in Reqs : GetSession(r)
    \/ \E r \in Reqs, ok \in BOOLEAN : ResetKernel(r, ok)
    \/ \E r \in Reqs : RkWaited(r)
    \/ \E r \in Reqs, probe \in {"timeout", "sent", "failed"} : WaitReady(r, probe)
    \/ \E r \in Reqs : WrDrain(r)
    \/ \E r \in Reqs : ExecuteCode(r)
    \/ \E r \in Reqs : ExecRecv(r)
    \/ \E r \in Reqs, ok \in BOOLEAN : CreateSession(r, ok)
    \/ \E r \in Reqs : CsReady(r)
    \/ \E r \in Reqs : CsSetup(r)
    \/ \E r \in Reqs, deps \in DepLists, code \in UserCodes : RunHave(r, deps, code)
    \/ \E r \in Reqs, code \in UserCodes : Install(r, code)
    \/ \E r \in Reqs, outcome \in {"ok", "failed", "timeout"} : PipDone(r, outcome)
    \/ \E r \in Reqs : Imported(r)
    \/ \E r \in Reqs : RunExec(r)
    \/ \E r \in Reqs : ResetStart(r)
    \/ \E r \in Reqs : RsGot(r)
    \/ \E r \in Reqs : RsReset(r)
    \/ \E r \in Reqs : RsSetup(r)
    \/ \E r \in Reqs : EndSession(r)
    \/ \E c \in Ctls : KernelStep(c)
    \/ \E c \in Ctls : CleanupThread(c)

Steps ==
    \/ StepsAlone
    \/ \E r \in Reqs : ExecChanStopped(r)

\* What follows a kernel that died or is too slow for the 20 s receive.
Recovery ==
    \/ \E c \in Ctls : KernelDie(c)
    \/ \E r \in Reqs : ExecEmpty(r)
    \/ \E r \in Reqs : GsReset(r)
    \/ \E r \in Reqs : GsSetup(r)

\* The readiness waits a handler reaches only when another request left the
\* controller of a live kernel not ready.
Rewaits ==
    \/ \E r \in Reqs : GsWaited(r)
    \/ \E r \in Reqs : ExWaited(r)

\* One conversation, requests overlapping.
Next ==
    \/ \E r \in Reqs, kind \in {"run", "reset", "end"} : Arrive(r, kind, "c1")
    \/ Steps
    \/ Recovery
    \/ Rewaits

Spec == Init /\ [][Next]_vars

\* Two conversations, requests overlapping, no faults.
NextKeys ==
    \/ \E r \in Reqs, kind \in {"run", "reset", "end"}, k \in Keys : Arrive(r, kind, k)
    \/ Steps

SpecKeys == InitQuiet /\ [][NextKeys]_vars

\* Two conversations, the clock and the inactivity sweep, no faults; a
\* request is sent once the one before it is answered.
NextGC ==
    \/ \E r \in Reqs, kind \in {"run", "reset", "end"}, k \in Keys :
          InFlight = {} /\ Arrive(r, kind, k)
    \/ Steps
    \/ \E d \in TickSteps : Tick(d)
    \/ GcSweep

SpecGC == InitQuiet /\ [][NextGC]_vars

\* One conversation, a request is sent once the one before it is answered;
\* the requests carry every code and every dependency list.
NextSeq ==
    \/ \E r \in Reqs, kind \in {"run", "reset", "end"} : InFlight = {} /\ Arrive(r, kind, "c1")
    \/ StepsAlone
    \/ Recovery
    \/ \E r \in Reqs, deps \in AllDepLists, code \in AllCodes : RunHave(r, deps, code)
    \/ \E r \in Reqs, code \in AllCodes : Install(r, code)

SpecSeq == Init /\ [][NextSeq]_vars

\* Two conversations and the faults of the environment; a request is sent
\* once the one before it is answered.
NextKeysFaults ==
    \/ \E r \in Reqs, kind \in {"run", "reset", "end"}, k \in Keys :
          InFlight = {} /\ Arrive(r, kind, k)
    \/ StepsAlone
    \/ Recovery

SpecKeysFaults == Init /\ [][NextKeysFaults]_vars

\* The service some time after a /run created the session of "c1" and was
\* answered: the session is registered and its kernel process has died.
\* The controller is number 1; the first request is a /reset, which creates
\* none.
InitDied ==
    /\ sessions = [k \in Keys |-> IF k = "c1" THEN 1 ELSE 0]
    /\ ctl = [c \in Ctls |->
                IF c = 1 THEN [NewController("c1") EXCEPT !.proc = "dead", !.ready = TRUE]
                ELSE NoCtl]
    /\ req = [r \in Reqs |-> NoReq]
    /\ running = 0
    /\ cleaning = {}
    /\ now = 0
    /\ everReg = {"c1"}
    /\ ended = {}
    /\ assigned = {}
    /\ wiped = {}
    /\ faults = 0
    /\ last = NoLast

NextDied ==
    \/ \E r \in Reqs, kind \in {"run", "reset", "end"} :
          (r = 1 => kind = "reset") /\ Arrive(r, kind, "c1")
    \/ Steps
    \/ Recovery
    \/ Rewaits

SpecDied == InitDied /\ [][NextDied]_vars

\* A pip install that ends one second short of its timeout.
SlowInstall == PipTimeout - 1

\* As many packages as it takes for their installs to outlast the
\* inactivity threshold.
SlowPackages == (InactivityThreshold \div SlowInstall) + 1
LongDeps == [i \in 1..SlowPackages |-> "pkg"]

\* The pip install the handler of request r awaits has run for SlowInstall
\* seconds; an install is slow once.
PipSlow(r) ==
    /\ req[r].pc = "pip"
    /\ req[r].deps = LongDeps
    /\ running = 0
    /\ req[r].hist[Len(req[r].hist)] = InstallStep(req[r].deps[req[r].di])
    /\ now' = now + SlowInstall
    /\ req' = [req EXCEPT ![r].hist = Append(@, "slow")]
    /\ UNCHANGED <<sessions, ctl, running, cleaning, everReg, ended, assigned, wiped, faults>>
    /\ last' = NoLast

\* The handler of request r awaits a pip install of the long dependency
\* list that has not yet taken its time.
AwaitsSlowPip(r) ==
    /\ req[r].pc = "pip"
    /\ req[r].deps = LongDeps
    /\ req[r].hist[Len(req[r].hist)] # "slow"

\* One conversation, slow installs and the inactivity sweep, no faults; a
\* request is sent once the one before it is answered.  A /run received at
\* time 0 may carry the long dependency list, and each install of that list
\* is a slow one.
NextInstall ==
    \/ \E r \in Reqs, kind \in {"run", "reset", "end"} : InFlight = {} /\ Arrive(r, kind, "c1")
    \/ \E r \in Reqs : RunStart(r)
    \/ \E r \in Reqs : GetSession(r)
    \/ \E r \in Reqs, ok \in BOOLEAN : ResetKernel(r, ok)
    \/ \E r \in Reqs : RkWaited(r)
    \/ \E r \in Reqs, probe \in {"timeout", "sent", "failed"} : WaitReady(r, probe)
    \/ \E r \in Reqs : WrDrain(r)
    \/ \E r \in Reqs : ExecuteCode(r)
    \/ \E r \in Reqs : ExecRecv(r)
    \/ \E r \in Reqs, ok \in BOOLEAN : CreateSession(r, ok)
    \/ \E r \in Reqs : CsReady(r)
    \/ \E r \in Reqs : CsSetup(r)
    \/ \E r \in Reqs, deps \in DepLists, code \in UserCodes : RunHave(r, deps, code)
    \/ \E r \in Reqs, code \in UserCodes : now = 0 /\ RunHave(r, LongDeps, code)
    \/ \E r \in Reqs, code \in UserCodes : Install(r, code)
    \/ \E r \in Reqs : PipSlow(r)
    \/ \E r \in Reqs, outcome \in {"ok", "failed", "timeout"} :
          ~AwaitsSlowPip(r) /\ PipDone(r, outcome)
    \/ \E r \in Reqs : Imported(r)
    \/ \E r \in Reqs : RunExec(r)
    \/ \E r \in Reqs : ResetStart(r)
    \/ \E r \in Reqs : RsGot(r)
    \/ \E r \in Reqs : RsReset(r)
    \/ \E r \in Reqs : RsSetup(r)
    \/ \E r \in Reqs : EndSession(r)
    \/ \E c \in Ctls : KernelStep(c)
    \/ \E c \in Ctls : CleanupThread(c)
    \/ GcSweep

SpecInstall == InitQuiet /\ [][NextInstall]_vars

\* The next step of the handler of request r.
Progress(r) ==
    \/ RunStart(r) \/ GetSession(r) \/ GsReset(r) \/ GsSetup(r) \/ GsWaited(r)
    \/ \E ok \in BOOLEAN : ResetKernel(r, ok)
    \/ RkWaited(r)
    \/ \E probe \in {"timeout", "sent", "failed"} : WaitReady(r, probe)
    \/ WrDrain(r) \/ ExecuteCode(r) \/ ExWaited(r)
    \/ ExecRecv(r) \/ ExecEmpty(r) \/ ExecChanStopped(r)
    \/ \E ok \in BOOLEAN : CreateSession(r, ok)
    \/ CsReady(r) \/ CsSetup(r)
    \/ \E deps \in DepLists, code \in UserCodes : RunHave(r, deps, code)
    \/ \E code \in UserCodes : Install(r, code)
    \/ \E outcome \in {"ok", "failed", "timeout"} : PipDone(r, outcome)
    \/ Imported(r) \/ RunExec(r)

\* One conversation, a request is sent once the one before it is answered;
\* a /run may carry code that does not terminate.  The event loop runs a
\* handler that can run, get_iopub_msg(timeout=20) returns within its
\* timeout, and a kernel process that has something to do does it.
NextLive ==
    \/ \E r \in Reqs, kind \in {"run", "reset", "end"} : InFlight = {} /\ Arrive(r, kind, "c1")
    \/ StepsAlone
    \/ Recovery
    \/ \E r \in Reqs : RunHave(r, <<>>, LoopCode)

SpecLive ==
    /\ Init
    /\ [][NextLive]_vars
    /\ \A r \in Reqs : WF_vars(Progress(r))
    /\ \A c \in Ctls : WF_vars(KernelStep(c))

\* ------------------------------------------------- cleanup(), call by call
\* The states cleanup() can find a controller in: before the kernel was
\* started (the notebook file may be written), with the kernel alive or
\* dead, and after a cleanup() some of whose calls raised.
TeardownStates ==
    {cr \in {[NoCtl EXCEPT !.key = "c1", !.proc = p, !.chan = ch, !.file = f] :
                p \in {"none", "alive", "dead"}, ch \in BOOLEAN, f \in BOOLEAN} :
        cr.proc = "none" => ~cr.chan}

InitTeardown ==
    /\ sessions = [k \in Keys |-> 0]
    /\ ctl \in {[c \in Ctls |-> IF c = 1 THEN cr ELSE NoCtl] : cr \in TeardownStates}
    /\ req = [r \in Reqs |-> NoReq]
    /\ running = 0
    /\ cleaning = {}
    /\ now = 0
    /\ everReg = {}
    /\ ended = {}
    /\ assigned = {}
    /\ wiped = {}
    /\ faults = 0
    /\ last = NoLast

\* cleanup() of controller 1 is called once the call before it has returned
\* (reset_kernel calls it at line 182 and get_session again at line 365).
ClCall(r) ==
    /\ req[r].pc = "idle"
    /\ \A q \in Reqs : req[q].pc \in {"idle", "cl_done"} /\ (q < r => req[q].pc # "idle")
    /\ req' = [req EXCEPT ![r] = [NoReq EXCEPT !.pc = "cl_chan", !.kind = "cleanup",
                                                !.key = "c1", !.sess = 1]]
    /\ UNCHANGED <<sessions, ctl, running, cleaning, now, everReg, ended, assigned, wiped, faults, last>>

\* A cleanup() whose stop_channels() is not inside a try (what C23 rules out).
ClStopChannels_Propagates(r, raised) ==
    /\ req[r].pc = "cl_chan"
    /\ ctl[req[r].sess].proc = "none" => ~raised
    /\ ctl' = IF raised \/ ctl[req[r].sess].proc = "none" THEN ctl
              ELSE [ctl EXCEPT ![req[r].sess] = StopChannels(@)]
    /\ req' = [req EXCEPT ![r] =
                 IF raised THEN [@ EXCEPT !.pc = "cl_done", !.exc = ChannelError,
                                          !.hist = Append(@, "stop_channels")]
                 ELSE [@ EXCEPT !.pc = "cl_proc"]]
    /\ UNCHANGED <<sessions, running, cleaning, now, everReg, ended, assigned, wiped, faults, last>>

\* `if self.kernel_client: try: stop_channels() except Exception: print`
ClStopChannels(r, raised) ==
    /\ req[r].pc = "cl_chan"
    /\ LET c == req[r].sess
       IN IF ctl[c].proc = "none"
          THEN /\ ~raised
               /\ req' = [req EXCEPT ![r].pc = "cl_proc"]
               /\ UNCHANGED ctl
          ELSE /\ ctl' = IF raised THEN ctl ELSE [ctl EXCEPT ![c] = StopChannels(@)]
               /\ req' = [req EXCEPT ![r] = [@ EXCEPT !.pc = "cl_proc",
                                                      !.hist = Append(@, "stop_channels")]]
    /\ UNCHANGED <<sessions, running, cleaning, now, everReg, ended, assigned, wiped, faults, last>>

\* `if self.kernel_manager: try: if is_alive(): shutdown_kernel(now=True)
\* except Exception: print`
ClShutdown(r, raised) ==
    /\ req[r].pc = "cl_proc"
    /\ LET c == req[r].sess
       IN IF ~IsAlive(c)
          THEN /\ ~raised
               /\ req' = [req EXCEPT ![r].pc = "cl_file"]
               /\ UNCHANGED ctl
          ELSE /\ ctl' = IF raised THEN ctl ELSE [ctl EXCEPT ![c] = ShutdownKernel(@)]
               /\ req' = [req EXCEPT ![r] = [@ EXCEPT !.pc = "cl_file",
                                                      !.hist = Append(@, "shutdown_kernel")]]
    /\ UNCHANGED <<sessions, running, cleaning, now, everReg, ended, assigned, wiped, faults, last>>

\* `if self.notebook_path and os.path.exists(self.notebook_path): try:
\* os.remove() except Exception: print`; cleanup() returns.
ClRemove(r, raised) ==
    /\ req[r].pc = "cl_file"
    /\ LET c == req[r].sess
       IN IF ~ctl[c].file
          THEN /\ ~raised
               /\ req' = [req EXCEPT ![r].pc = "cl_done"]
               /\ UNCHANGED ctl
          ELSE /\ ctl' = IF raised THEN ctl ELSE [ctl EXCEPT ![c] = RemoveNotebook(@)]
               /\ req' = [req EXCEPT ![r] = [@ EXCEPT !.pc = "cl_done",
                                                      !.hist = Append(@, "remove")]]
    /\ UNCHANGED <<sessions, running, cleaning, now, everReg, ended, assigned, wiped, faults, last>>

\* cleanup() on a controller in any state, each of its calls free to raise.
NextTeardown ==
    \/ \E r \in Reqs : ClCall(r)
    \/ \E r \in Reqs, raised \in BOOLEAN : ClStopChannels(r, raised)
    \/ \E r \in Reqs, raised \in BOOLEAN : ClShutdown(r, raised)
    \/ \E r \in Reqs, raised \in BOOLEAN : ClRemove(r, raised)

SpecTeardown == InitTeardown /\ [][NextTeardown]_vars

\* ----------------------------------------------------------------- claims
Range(f) == {f[i] : i \in 1..Len(f)}

\* C1: a read of x by a /run that arrived after an undisturbed successful
\* "x=1" run on its conversation never ends in NameError and, when it
\* succeeds, returns the value; a read by a /run that arrived after a
\* successful /reset of a conversation where x was assigned (and no "x=1"
\* since) never succeeds, and the only interpreter error it reports is
\* NameError.
C1_PersistenceAndReset ==
    (last.kind = "run" /\ last.code = ReadCode) =>
        /\ last.sawAssigned =>
              /\ last.res.ename # "NameError"
              /\ last.res.status = 200 => "1" \in Range(last.res.output)
        /\ last.afterWipe =>
              /\ last.res.status # 200
              /\ last.res.ename \in {"", "NameError"}

C1_Witness ==
    /\ last.kind = "run"
    /\ last.code = ReadCode
    /\ last.afterWipe
    /\ last.res.ename = "NameError"

\* C2: a /run that arrives after end_session succeeded on its conversation
\* is answered 404 and leaves the conversation without a registry entry.
C2_RunAfterEnd ==
    (last.kind = "run" /\ last.afterEnd) =>
        /\ last.res.status = 404
        /\ sessions[last.key] = 0

\* C3: a /run whose code execution was ended by an error message of the
\* kernel is answered 400 with the structured error detail.
C3_ErrorIs400 ==
    (last.kind = "run" /\ last.code # "" /\ last.res.ename # "") =>
        /\ last.res.status = 400
        /\ last.res.structured

\* C4: for a conversation that never had a registry entry, at most one
\* /run in flight has started an engine.
C4_SingleCreation ==
    \A k \in Keys :
        k \notin everReg =>
            Cardinality({q \in InFlight : /\ req[q].kind = "run"
                                          /\ req[q].key = k
                                          /\ "start" \in Range(req[q].hist)}) <= 1

\* C5: each conversation has at most one live kernel process.
C5_OneLiveEngine ==
    \A k \in Keys : Cardinality({c \in Ctls : ctl[c].key = k /\ IsAlive(c)}) <= 1

\* C6: the response of a /run holds no message of an execution submitted by
\* a request that was in flight together with it.
C6_NoCrossTalk ==
    last.kind = "run" => Foreign(last.res, last.r) \cap last.peers = {}

\* C7: while a /run waits for the next message of its kernel and none has
\* come, a /run in flight on another conversation can take its next step.
C7_OtherConversationProceeds ==
    \A a, b \in Reqs :
        (/\ req[a].kind = "run"
         /\ req[a].pc = "ex_wait"
         /\ ctl[req[a].sess].iopub = <<>>
         /\ b \in InFlight
         /\ req[b].kind = "run"
         /\ req[b].key # req[a].key)
        => ENABLED Progress(b)

\* C8: a sweep removes every registered session idle for more than 3600 s
\* and schedules its cleanup; it keeps every session idle for less than
\* 3600 s, with its controller untouched and no cleanup scheduled.
C8_SweepThreshold ==
    [][last'.kind = "sweep" =>
        \A k \in Keys :
            LET c == sessions[k] IN
            c # 0 =>
               /\ now - ctl[c].last_activity > 3600 =>
                      sessions'[k] = 0 /\ c \in cleaning'
               /\ now - ctl[c].last_activity < 3600 =>
                      /\ sessions'[k] = c
                      /\ c \in cleaning' => c \in cleaning
                      /\ ctl'[c] = ctl[c]]_vars

C8_Witness ==
    /\ last.kind = "sweep"
    /\ last.removed # {}
    /\ \E k \in Keys : /\ sessions[k] # 0
                       /\ now - ctl[sessions[k]].last_activity < 3600

\* C9: every step of a /reset or /end_session whose conversation had no
\* registry entry when its handler started leaves the registry and the
\* kernel processes as they are, keeps the event loop until the answer, and
\* the answer is 404.
C9_UnknownId ==
    [][\A r \in Reqs :
         LET q == req[r] IN
         (/\ q.kind \in {"reset", "end"}
          /\ req'[r].pc # q.pc
          /\ IF q.pc = "start" THEN sessions[q.key] = 0 ELSE q.unknown)
         => /\ sessions' = sessions
            /\ \A c \in Ctls : ctl'[c].proc = ctl[c].proc
            /\ IF req'[r].pc = "done"
               THEN last'.r = r /\ last'.res.status = 404
               ELSE req'[r].unknown /\ running' = r]_vars

C9_Witness ==
    /\ last.kind = "reset"
    /\ last.unknown
    /\ last.res.status = 404
    /\ sessions[last.key] = 0

\* A /run that created its session and was answered 200.
CreatedAndAnswered ==
    /\ last.kind = "run"
    /\ last.res.status = 200
    /\ last.hist # <<>>
    /\ Head(last.hist) = "start"

\* C10 (as amended): a /run that found no registry entry starts a kernel,
\* probes it, runs the setup code and, after that, the caller's code; when
\* it sent no dependencies and is answered 200, these four are all it did,
\* the conversation is registered with the controller it created and the
\* readiness flag of that controller is set.
C10_ImplicitCreation ==
    CreatedAndAnswered =>
        /\ Len(last.hist) >= 4
        /\ SubSeq(last.hist, 1, 3) = <<"start", "probe", "setup">>
        /\ last.hist[Len(last.hist)] = "code"
        /\ last.deps = <<>> =>
              /\ last.hist = <<"start", "probe", "setup", "code">>
              /\ sessions[last.key] = last.sess
              /\ ctl[last.sess].ready

C10_Witness ==
    /\ CreatedAndAnswered
    /\ last.deps = <<>>
    /\ sessions[last.key] = last.sess
    /\ IsAlive(last.sess)

\* C10 (as stated): when a /run that created its session is answered 200,
\* the conversation is registered with a live, ready engine.
C10_RegisteredLiveReady ==
    CreatedAndAnswered =>
        LET c == sessions[last.key] IN
        /\ c # 0
        /\ ctl[c].proc = "alive"
        /\ ctl[c].ready

\* The texts one after the other, with nothing between them.
RECURSIVE Concat(_)
Concat(texts) == IF texts = <<>> THEN <<>> ELSE Head(texts) \o Concat(Tail(texts))

IsOutput(m) == m.msg_type \in {"stream", "execute_result"}

\* The trimmed concatenation of the stream and result texts the kernel
\* emits for `code` when it runs it without an error.
Expected(code) ==
    Strip(Concat(Texts(SelectSeq(KernelReply(code, NoTok, {"x"}), IsOutput))))

\* C11: the output of a /run answered 200 is the concatenation, in emission
\* order and with nothing in between, of the stream and result texts of the
\* kernel for the code of that run, trimmed of surrounding whitespace.
C11_OutputIsConcatenation ==
    (last.kind = "run" /\ last.res.status = 200) =>
        last.res.output = Expected(last.code)

\* The status the handler of a request answers for the exception e.
StatusOf(e) == IF e.cls = "HTTPException" THEN e.status ELSE 500

\* C12: a request whose get_session finds the registered controller's kernel
\* not alive clears the readiness flag and calls reset_kernel, which makes
\* one restart; the setup code follows a restart that succeeded, and
\* reset_kernel is not called a second time.  When the restart or the setup
\* code fails, the entry is deleted, the controller is cleaned up and the
\* request is answered 500; when both succeed the registry is left as it is
\* and the request goes on with the session.
C12_DeadEngineRecovery ==
    [][\A r \in Reqs :
         LET q == req[r]
             n == req'[r]
             k == q.key
             c == IF q.pc = "get_session" THEN sessions[k] ELSE q.sess
             moved == n.pc # q.pc
             callers == {"run_have", "rs_got"}
         IN
         /\ (moved /\ q.pc = "get_session" /\ c # 0 /\ ~IsAlive(c)) =>
                /\ ~ctl'[c].ready
                /\ n.pc = "reset_kernel" /\ Head(n.stk) = "gs_reset"
                /\ n.sess = c
                /\ sessions' = sessions
         /\ (moved /\ q.pc = "reset_kernel" /\ Head(q.stk) = "gs_reset") =>
                \/ /\ n.hist = Append(q.hist, "restart")
                   /\ IsAlive(c)'
                   /\ n.pc = "wait_ready"
                \/ /\ n.hist = q.hist
                   /\ n.pc = "gs_reset" /\ n.exc # NoExc
         /\ (moved /\ n.pc = "reset_kernel") => q.pc \in {"get_session", "gs_waited", "rs_got"}
         /\ (moved /\ q.pc = "gs_reset" /\ q.exc = NoExc) =>
                /\ n.pc = "execute_code" /\ n.xcode = SetupCode /\ Head(n.stk) = "gs_setup"
                /\ sessions' = sessions
         /\ (moved /\ q.pc \in {"gs_reset", "gs_setup"} /\ q.exc # NoExc) =>
                /\ sessions'[k] = 0
                /\ ~ctl'[c].chan /\ ~IsAlive(c)'
                /\ n.pc \in callers /\ StatusOf(n.exc) = 500
         /\ (moved /\ q.pc = "gs_setup" /\ q.exc = NoExc) =>
                /\ sessions' = sessions
                /\ n.pc \in callers /\ n.exc = NoExc /\ n.sess = c
         /\ (moved /\ q.pc \in callers) =>
                IF q.exc # NoExc
                THEN n.pc = "done" /\ last'.r = r /\ last'.res.status = StatusOf(q.exc)
                ELSE n.pc \in {"execute_code", "install", "reset_kernel"} /\ n.sess = q.sess
      ]_vars

\* The recovery of a dead kernel failed: the entry is gone and the request
\* is about to be answered 500.
C12_Witness ==
    \E r \in Reqs :
        /\ req[r].pc \in {"run_have", "rs_got"}
        /\ req[r].exc = HTTPException(500, "Kernel died and could not be reset")
        /\ "restart" \in Range(req[r].hist)
        /\ sessions[req[r].key] = 0
        /\ ~ctl[req[r].sess].chan

\* The recovery of a dead kernel succeeded.
C12_Recovered ==
    \E r \in Reqs :
        /\ req[r].pc = "run_have"
        /\ req[r].exc = NoExc
        /\ req[r].hist = <<"restart", "probe", "setup">>
        /\ sessions[req[r].key] = req[r].sess

\* The controller's kernel runs and its channels are open.
Working(c) == IsAlive(c) /\ ctl[c].chan

\* C13: when a request is answered with the failure of a kernel restart
\* (the 500 of get_session's recovery, or the 500 of /reset for an
\* exception of reset_kernel), its conversation has no registry entry, or
\* the entry's controller has a running kernel and open channels.
C13_RestartFailureRemoves ==
    (/\ last.r # 0
     /\ last.res.kind \in {"Failed to reset session", "Kernel died and could not be reset"})
    => \/ sessions[last.key] = 0
       \/ Working(sessions[last.key])

\* A /run that was answered while it worked on its dependency list.
DepFailed == last.kind = "run" /\ last.deps # <<>> /\ last.code = ""

\* C14: a /run that fails while it installs or imports a dependency is
\* answered 400, with a detail that names the package and says whether the
\* install or the import failed.
C14_DependencyFailureIs400 ==
    DepFailed =>
        LET pkg == last.deps[last.di] IN
        /\ last.res.status = 400
        /\ last.res.kind \in
              {"Failed to install dependency '" \o pkg \o "'",
               "Package '" \o pkg \o "' installed but failed to import in kernel"}

\* What _install_dependencies does for the first n names of a list.
RECURSIVE DepSteps(_, _)
DepSteps(deps, n) ==
    IF n = 0 THEN <<>>
    ELSE DepSteps(deps, n - 1) \o
         (IF deps[n] = "" THEN <<>> ELSE <<InstallStep(deps[n]), ImportCode(deps[n])>>)

IsDepStep(e) == e \notin {"start", "probe", "setup", "restart", "code"}

C16_MatchingIdleOnly ==
    [][\A r \in Reqs :
         LET q == req[r]
             n == req'[r]
             c == q.sess
             used == Len(ctl[c].iopub) - Len(ctl'[c].iopub)
         IN
         (q.pc = "ex_wait" /\ n.pc # "ex_wait") =>
            IF n.exc = NoExc
            THEN /\ used >= 1
                 /\ ctl[c].iopub[used] = IdleMsg(q.mid)
                 /\ \A j \in 1..Len(ctl[c].shell) : ctl[c].shell[j].tok # q.mid
                 /\ \A j \in 1..Len(ctl[c].emit) : ctl[c].emit[j].parent # q.mid
                 /\ \A j \in 1..(used - 1) : ctl[c].iopub[j].msg_type # "error"
            ELSE \/ ctl[c].iopub = <<>>
                 \/ ~ctl[c].chan
                 \/ used >= 1 /\ ctl[c].iopub[used].msg_type = "error"
      ]_vars

\* The setup code of a creation returned with success, and among the
\* outputs it collected is one of another execution (the probe): the idle
\* status of that execution came before its own and was passed over.
C16_Witness ==
    \E r \in Reqs :
        /\ req[r].pc = "cs_setup"
        /\ req[r].exc = NoExc
        /\ \E i \in 1..Len(req[r].outs) : req[r].outs[i].parent # req[r].mid

\* C17: the readiness flag of a controller goes from unset to set only in a
\* step of a request that has sent the probe to a live kernel and now reads
\* the idle status of that probe from the queue.
C17_ReadyAfterMatchingIdle ==
    [][\A c \in Ctls :
         (~ctl[c].ready /\ ctl'[c].ready) =>
            \E r \in Reqs :
               /\ req[r].pc = "wr_drain"
               /\ req[r].sess = c
               /\ req[r].hist[Len(req[r].hist)] = "probe"
               /\ \E i \in 1..Len(ctl[c].iopub) :
                     /\ ctl[c].iopub[i] = IdleMsg(<<r, Len(req[r].hist)>>)
                     /\ Len(ctl'[c].iopub) = Len(ctl[c].iopub) - i
      ]_vars

\* C18: when the receive of execute_code times out on an empty queue, a
\* live kernel makes it a 408 that leaves the controller and the registry
\* as they are; a dead kernel makes it the "Kernel died" error and clears
\* the readiness flag.  A request that then looks the session up finds the
\* kernel dead and calls reset_kernel; no code is ever submitted to a
\* kernel that is not alive.
C18_ReceiveTimeout ==
    [][/\ \A r \in Reqs :
            LET q == req[r]
                n == req'[r]
                c == q.sess
            IN
            /\ (q.pc = "ex_wait" /\ n.pc # "ex_wait" /\ ctl[c].chan /\ ctl[c].iopub = <<>>) =>
                   IF IsAlive(c)
                   THEN /\ n.exc.cls = "HTTPException" /\ n.exc.status = 408
                        /\ ctl'[c] = ctl[c]
                        /\ sessions' = sessions
                   ELSE /\ n.exc = RuntimeErr("Kernel died during execution")
                        /\ ~ctl'[c].ready
                        /\ sessions' = sessions
            /\ (/\ q.pc = "get_session" /\ n.pc # "get_session"
                /\ sessions[q.key] # 0 /\ ~IsAlive(sessions[q.key])) =>
                   /\ n.pc = "reset_kernel"
                   /\ ~ctl'[sessions[q.key]].ready
       /\ \A c \in Ctls :
            Len(ctl'[c].shell) > Len(ctl[c].shell) => IsAlive(c)
      ]_vars

\* A receive timed out on a dead kernel: the error is raised and the
\* readiness flag of the registered controller is cleared.
C18_Witness ==
    \E r \in Reqs :
        /\ req[r].exc = RuntimeErr("Kernel died during execution")
        /\ sessions[req[r].key] = req[r].sess
        /\ ~ctl[req[r].sess].ready
        /\ ~IsAlive(req[r].sess)

\* A receive timed out on a live kernel: 408.
C18_TimedOut ==
    \E r \in Reqs :
        /\ req[r].exc = HTTPException(408, "Code execution timed out")
        /\ sessions[req[r].key] = req[r].sess
        /\ ctl[req[r].sess].ready
        /\ IsAlive(req[r].sess)

\* The handler of request r is inside execute_code.
InExecute(r) ==
    \/ req[r].pc \in {"execute_code", "ex_waited", "ex_wait"}
    \/ "ex_waited" \in Range(req[r].stk)

\* C19: every call of execute_code returns or raises.
C19_ExecuteReturns ==
    \A r \in Reqs : InExecute(r) ~> ~InExecute(r)

\* A /run was answered with the failure of its _create_session.
CreationFailed == last.kind = "run" /\ last.res.kind = "Failed to create session"

\* The handler of request r has registered the session it creates and the
\* setup code has not returned yet.
InSetup(r) == req[r].pc = "cs_setup" \/ "cs_setup" \in Range(req[r].stk)

\* While a creation is between the registration and the end of the setup
\* code, its handler holds the event loop: no other handler and no sweep
\* runs.
NoHalfInitialized ==
    \A r \in Reqs :
        (InSetup(r) /\ sessions[req[r].key] = req[r].sess) => running = r

\* C20: when a /run is answered with the failure of its session creation,
\* the answer is 500, the controller it created is cleaned up and its
\* conversation has no registry entry; and a session that is registered
\* while its setup code has not returned is seen by no other handler and by
\* no sweep.
C20_FailedCreationLeavesNothing ==
    /\ CreationFailed =>
          /\ last.res.status = 500
          /\ last.sess # 0 => ~ctl[last.sess].chan /\ ~IsAlive(last.sess)
          /\ sessions[last.key] = 0
    /\ NoHalfInitialized

\* The same, for the registry entry of the failed creation only: the
\* conversation is not registered with the controller that creation made.
C20_OwnSession ==
    /\ CreationFailed =>
          /\ last.res.status = 500
          /\ last.sess # 0 => ~ctl[last.sess].chan /\ ~IsAlive(last.sess)
          /\ sessions[last.key] # last.sess \/ last.sess = 0
    /\ NoHalfInitialized

\* A stream or result message the kernel emits for the code of a /run.
UserOutput(m) ==
    /\ IsOutput(m)
    /\ \E code \in AllCodes, ns \in SUBSET {"x"} :
          m \in Range(KernelReply(code, m.parent, ns))

\* C21: with one request at a time on a conversation, the outputs a /run
\* has collected when its code returns with success hold no message the
\* kernel emitted for the code of an earlier /run.
C21_NoStaleOutput ==
    \A r \in Reqs :
        (req[r].pc = "run_exec" /\ req[r].exc = NoExc) =>
            \A i \in 1..Len(req[r].outs) :
                UserOutput(req[r].outs[i]) => req[r].outs[i].parent[1] = r

\* The keys whose entry the step removes from the registry.
Detached == {k \in Keys : sessions[k] # 0 /\ sessions'[k] = 0}

\* C22: an entry leaves the registry in a step of end_session on its key or
\* in a sweep that found it inactive, and in that step the cleanup() of its
\* controller is put on a thread, for the first and only time.  A sweep
\* passes over a key that has no entry; an end_session on a key that has no
\* entry is answered 404 and changes nothing.
C22_DetachedOnce ==
    [][/\ \A k \in Detached :
            /\ \/ last'.kind = "end" /\ last'.key = k /\ last'.res.status = 200
               \/ last'.kind = "sweep" /\ k \in last'.removed
            /\ sessions[k] \in cleaning' \ cleaning
       /\ \A c \in Ctls :
            /\ c \in cleaning' \ cleaning => \E k \in Detached : sessions[k] = c
            /\ ctl'[c].popped = ctl[c].popped + (IF c \in cleaning' \ cleaning THEN 1 ELSE 0)
            /\ ctl'[c].popped <= 1
       /\ last'.kind = "sweep" =>
            \A k \in Keys : sessions[k] = 0 => sessions'[k] = 0 /\ k \notin last'.removed
       /\ (last'.kind = "end" /\ sessions[last'.key] = 0) =>
            /\ last'.res.status = 404
            /\ sessions' = sessions /\ cleaning' = cleaning /\ ctl' = ctl
      ]_vars

\* An end_session on a conversation the sweep has removed is answered 404.
C22_Witness ==
    /\ last.kind = "end"
    /\ last.res.status = 404
    /\ last.key \notin ended
    /\ \E c \in Ctls : ctl[c].key = last.key /\ ctl[c].popped = 1

\* A sweep removes one conversation and passes over the other, which an
\* end_session removed before.
C22_SweepSkips ==
    /\ last.kind = "sweep"
    /\ last.removed # {}
    /\ \E k \in ended : sessions[k] = 0 /\ k \notin last.removed

\* C23: every call of cleanup() goes through its three parts in order and
\* returns without an exception: stop_channels() is called when there is a
\* client, shutdown_kernel() when the kernel is alive and os.remove() when
\* the notebook file exists, whether or not the calls before it raised.
C23_TeardownBestEffort ==
    [][\A r \in Reqs :
         LET q == req[r]
             n == req'[r]
             c == q.sess
         IN
         /\ (q.pc = "cl_chan" /\ n.pc # q.pc) =>
                /\ n.pc = "cl_proc" /\ n.exc = NoExc
                /\ ctl[c].proc # "none" => n.hist = Append(q.hist, "stop_channels")
         /\ (q.pc = "cl_proc" /\ n.pc # q.pc) =>
                /\ n.pc = "cl_file" /\ n.exc = NoExc
                /\ IsAlive(c) => n.hist = Append(q.hist, "shutdown_kernel")
         /\ (q.pc = "cl_file" /\ n.pc # q.pc) =>
                /\ n.pc = "cl_done" /\ n.exc = NoExc
                /\ ctl[c].file => n.hist = Append(q.hist, "remove")
      ]_vars

\* cleanup() has returned; each of its three calls was made and raised: the
\* channels are open, the kernel is alive and the file is there.
C23_Witness ==
    \E r \in Reqs :
        /\ req[r].pc = "cl_done"
        /\ req[r].exc = NoExc
        /\ req[r].hist = <<"stop_channels", "shutdown_kernel", "remove">>
        /\ ctl[req[r].sess].chan /\ IsAlive(req[r].sess) /\ ctl[req[r].sess].file

\* The handler of request r is between its get_session and its answer.
HasSession(r) == req[r].sess # 0 /\ req[r].pc \notin {"idle", "done"}

\* C24: from the session get_session returned to the answer, no step of a
\* /reset changes the registry, the controller the handler works on or the
\* creation time of the session.  The step that restarts the kernel leaves
\* the readiness flag cleared; the flag is set again in the step that ends
\* the readiness wait of the handler on the restarted kernel.  A /reset
\* answered 200 has restarted, probed and set up the kernel, and leaves the
\* conversation registered with that controller and the flag set.
C24_ResetKeepsSession ==
    [][\A r \in Reqs :
         LET q == req[r]
             n == req'[r]
             c == q.sess
         IN
         (q.kind = "reset" /\ HasSession(r) /\ n.pc # q.pc) =>
            /\ sessions' = sessions
            /\ sessions[q.key] = c
            /\ ctl'[c].created_at = ctl[c].created_at
            /\ n.pc # "done" => n.sess = c
            /\ n.hist = Append(q.hist, "restart") => ~ctl'[c].ready /\ IsAlive(c)'
            /\ (~ctl[c].ready /\ ctl'[c].ready) =>
                  /\ q.pc = "wr_drain"
                  /\ n.pc = "rk_waited" /\ n.exc = NoExc
                  /\ q.hist[Len(q.hist) - 1] = "restart"
                  /\ IsAlive(c)
            /\ (n.pc = "done" /\ last'.res.status = 200) =>
                  /\ q.hist = <<"restart", "probe", "setup">>
                  /\ ctl'[c].ready
      ]_vars

\* The same for a /reset among overlapping requests and faults: a step of
\* the handler, other than the failed recovery of get_session, changes
\* neither the registry nor the controller it works on nor the creation
\* time, and its restart leaves the readiness flag cleared.
C24_OwnSteps ==
    [][\A r \in Reqs :
         LET q == req[r]
             n == req'[r]
             c == q.sess
         IN
         (/\ q.kind = "reset" /\ HasSession(r) /\ n.pc # q.pc
          /\ ~(q.pc \in {"gs_reset", "gs_setup"} /\ q.exc # NoExc)) =>
            /\ sessions' = sessions
            /\ ctl'[c].created_at = ctl[c].created_at
            /\ n.pc # "done" => n.sess = c
            /\ n.hist = Append(q.hist, "restart") => ~ctl'[c].ready /\ IsAlive(c)'
      ]_vars

\* A /reset is answered 200 some time after the session was created: the
\* conversation is registered with the controller it had, whose creation
\* time is the old one.
C24_Witness ==
    /\ last.kind = "reset"
    /\ last.res.status = 200
    /\ sessions[last.key] = last.sess
    /\ ctl[last.sess].ready
    /\ ctl[last.sess].created_at < ctl[last.sess].last_activity
    /\ ctl[last.sess].last_activity = now

\* C25: a /run or /reset that finds its conversation registered goes to
\* get_session first, and the step of get_session that finds the entry sets
\* last_activity of the session to the time of that step, before the
\* request has submitted anything to the kernel.  The last_activity of a
\* registered session never decreases, and no step of end_session or of a
\* sweep changes the last_activity of any session.
C25_TouchOnAccess ==
    [][/\ \A r \in Reqs :
            LET q == req[r]
                n == req'[r]
                c == sessions[q.key]
            IN
            (q.kind \in {"run", "reset"} /\ n.pc # q.pc /\ c # 0) =>
               /\ q.pc = "start" => n.pc = "get_session" /\ n.hist = <<>>
               /\ q.pc = "get_session" =>
                     /\ ctl'[c].last_activity = now
                     /\ q.hist = <<>> /\ q.sess = 0
                     /\ n.sess = c
       /\ \A k \in Keys :
            (sessions[k] # 0 /\ sessions'[k] = sessions[k]) =>
               ctl'[sessions[k]].last_activity >= ctl[sessions[k]].last_activity
       /\ last'.kind \in {"end", "sweep"} =>
            \A c \in Ctls : ctl'[c].last_activity = ctl[c].last_activity
      ]_vars

\* A /run on a session created some time ago was answered with an error:
\* the last_activity of the session is the time of the request.
C25_Witness ==
    /\ last.kind = "run"
    /\ last.res.status # 200
    /\ last.hist = <<"code">>
    /\ sessions[last.key] = last.sess
    /\ ctl[last.sess].created_at < now
    /\ ctl[last.sess].last_activity = now

\* C26: a step of the handler of a /run, /reset or /end_session leaves the
\* registry entry of every other conversation as it is, and with it every
\* controller of another conversation that the registry, a handler or a
\* cleanup thread refers to (kernel, channels, readiness flag, queues,
\* file, created_at, last_activity); it stops no kernel process of another
\* conversation and puts no controller of another conversation up for
\* cleanup.
C26_OtherConversationsUntouched ==
    [][\A r \in Reqs :
         LET q == req[r]
             n == req'[r]
         IN
         (q.kind \in {"run", "reset", "end"} /\ n.pc # q.pc) =>
            /\ \A k \in Keys \ {q.key} : sessions'[k] = sessions[k]
            /\ \A c \in Ctls :
                  ctl[c].key \notin {"", q.key} =>
                     /\ ctl'[c].proc = ctl[c].proc
                     /\ Referenced(c, sessions, cleaning, req) => ctl'[c] = ctl[c]
            /\ \A c \in cleaning' \ cleaning : ctl[c].key = q.key
      ]_vars

\* A request was answered 500 and its conversation has lost its entry; the
\* other conversation is registered with a running, ready kernel.
C26_Witness ==
    /\ last.r # 0
    /\ last.res.status = 500
    /\ last.key \in everReg
    /\ sessions[last.key] = 0
    /\ \E k \in Keys \ {last.key} :
          /\ sessions[k] # 0
          /\ Working(sessions[k])
          /\ ctl[sessions[k]].ready

\* The handler of request r is on a failure path that deletes the entry of
\* its conversation: the recovery of get_session failed, or the setup code
\* of _create_session failed.
Deleting(r) == req[r].pc \in {"gs_reset", "gs_setup", "cs_setup"} /\ req[r].exc # NoExc

\* C27: when a step on a failure path of a request removes a registry
\* entry, the entry is the one of the session the request works on, and the
\* controller of the removed entry is left cleaned up: its channels are
\* stopped and its kernel process does not run.
C27_DeletesOwnEntry ==
    [][\A r \in Reqs :
         LET q == req[r]
             old == sessions[q.key]
         IN
         (Deleting(r) /\ req'[r].pc # q.pc /\ old # 0 /\ sessions'[q.key] = 0) =>
            /\ old = q.sess
            /\ ~ctl'[old].chan /\ ctl'[old].proc # "alive"
      ]_vars

\* C28: code other than the readiness probe is handed to a kernel only by
\* the step of execute_code that found the readiness flag set and the
\* kernel process alive.  An execute_code that finds the flag unset waits
\* for readiness and submits nothing in that step; when the wait raised or
\* the flag is still unset it raises RuntimeError, and when the flag is set
\* and the kernel process is not alive it clears the flag and raises
\* "Kernel died": in both cases the code is not submitted.
C28_SubmitOnlyWhenReady ==
    [][/\ \A c \in Ctls :
            (/\ Len(ctl'[c].shell) > Len(ctl[c].shell)
             /\ ctl'[c].shell[Len(ctl'[c].shell)].code # ProbeCode) =>
               /\ ctl[c].ready
               /\ IsAlive(c)
               /\ \E r \in Reqs : /\ req[r].sess = c
                                  /\ req[r].pc \in {"execute_code", "ex_waited"}
                                  /\ req'[r].pc = "ex_wait"
       /\ \A r \in Reqs :
            LET q == req[r]
                n == req'[r]
                c == q.sess
                waited == q.pc = "ex_waited"
            IN
            (q.pc \in {"execute_code", "ex_waited"} /\ n.pc # q.pc) =>
               /\ (~waited /\ ~ctl[c].ready) =>
                     /\ n.pc = "wait_ready" /\ Head(n.stk) = "ex_waited"
                     /\ ctl' = ctl
               /\ (waited /\ (q.exc # NoExc \/ ~ctl[c].ready)) =>
                     /\ n.exc.cls = "RuntimeError" /\ n.pc = Head(q.stk)
                     /\ n.hist = q.hist
                     /\ ctl' = ctl
               /\ (ctl[c].ready /\ (waited => q.exc = NoExc) /\ ~IsAlive(c)) =>
                     /\ n.exc = RuntimeErr("Kernel died") /\ n.pc = Head(q.stk)
                     /\ n.hist = q.hist
                     /\ ctl'[c].shell = ctl[c].shell
                     /\ ~ctl'[c].ready
      ]_vars

\* An execute_code whose readiness wait timed out has raised "Kernel not
\* ready"; the kernel of its controller is alive and has been handed
\* nothing.
C28_Witness ==
    \E r \in Reqs :
        /\ req[r].exc = RuntimeErr("Kernel not ready")
        /\ ~ctl[req[r].sess].ready
        /\ IsAlive(req[r].sess)
        /\ ctl[req[r].sess].shell = <<>>

\* The requests that hold the session of controller c and are not answered.
Holders(c) == {r \in Reqs : req[r].pc \notin {"idle", "done"} /\ req[r].sess = c}

\* C29: the inactivity sweep removes no entry whose session is held by a
\* /run or /reset that is not answered yet.
C29_SweepSparesInFlight ==
    [][\A k \in Detached :
          last'.kind = "sweep" => Holders(sessions[k]) = {}
      ]_vars

=============================================================================
